---- MODULE Spec2Model ----
(***************************************************************************)
(* Model of the notebook                                                   *)
(*   notebooks/08-05-incorporating-masks-into-calibrated-science-images    *)
(* The notebook reads two static masks from the directory of reduced       *)
(* images, converts them to boolean, combines them with a logical or, and  *)
(* then loops over the light frames: detect cosmic rays, or the cosmic ray *)
(* mask with the combined mask, keep a mask the image already had, write   *)
(* the image back over the calibrated file.                                *)
(*                                                                         *)
(* A grid (pixel array) is a sequence of rows, a row a sequence of cells.  *)
(* The absent mask (Python None) is the empty sequence.                    *)
(***************************************************************************)
EXTENDS Integers, Sequences, FiniteSets

VARIABLES
    disk,           \* the directory example2-reduced: file name -> file
    disk0,          \* history: the directory as it was when the session began
    pc,             \* the statement the session is at
    err,            \* the exception that stopped the session, or NoErr
    mask_ccdmask,   \* boolean data of mask_from_ccdmask.fits
    mask_hot_pix,   \* boolean data of mask_from_dark_current.fits
    combined_mask,  \* mask_ccdmask.data | mask_hot_pix.data
    i,              \* number of light frames the loop has finished
    ccd,            \* the loop variable ccd: [data, mask]
    file_name,      \* the loop variable file_name
    new_ccd,        \* result of cosmicray_lacosmic: [data, mask]
    overall_mask,   \* new_ccd.mask | combined_mask
    out,            \* the status messages printed, in order
    stage,          \* history: per light frame, how far this run has taken it
    reads,          \* history: files the loop has read this run
    writes,         \* history: the requests made to the writer
    run,            \* which execution of the loop cell this is
    cr1             \* history: cosmic ray mask returned per frame in run 1

vars == <<disk, disk0, pc, err, mask_ccdmask, mask_hot_pix, combined_mask, i,
          ccd, file_name, new_ccd, overall_mask, out, stage, reads, writes,
          run, cr1>>

----------------------------------------------------------------------------
(* Bounds of the model *)

NumLight == 2     \* light frames in the directory
Rows == 2         \* largest number of rows of a grid
Cols == 2         \* largest number of columns of a grid
MaxFlagged == 1   \* most flagged pixels in a mask that is an input
MaxPix == 2       \* largest pixel value stored in a mask file
MaxRuns == 2      \* executions of the loop cell

----------------------------------------------------------------------------
(* Grids *)

None == <<>>
NoErr == "none"

NRows(g) == Len(g)
NCols(g) == Len(g[1])
Shape(g) == <<NRows(g), NCols(g)>>

Grids(r, c, V) == [1..r -> [1..c -> V]]

Count(m) == Cardinality({p \in (1..NRows(m)) \X (1..NCols(m)) : m[p[1]][p[2]]})

NonZero(g) == Cardinality({p \in (1..NRows(g)) \X (1..NCols(g)) : g[p[1]][p[2]] # 0})

\* boolean masks of a shape that flag at most MaxFlagged pixels
InputMasks(r, c) == {m \in Grids(r, c, BOOLEAN) : Count(m) <= MaxFlagged}

\* contents of a mask file of a shape: at most MaxFlagged nonzero pixels
RawMasks(r, c) == {g \in Grids(r, c, 0..MaxPix) : NonZero(g) <= MaxFlagged}

\* mutant: only the value 1 counts as flagged
AsBoolOnlyOne(g) == [r \in 1..NRows(g) |-> [c \in 1..NCols(g) |-> g[r][c] = 1]]

\* ndarray.astype('bool'): nonzero is True
AsBool(g) == [r \in 1..NRows(g) |-> [c \in 1..NCols(g) |-> g[r][c] # 0]]

\* numpy broadcasting of two 2-d shapes: per axis equal, or one of them 1
Broadcastable(a, b) ==
    /\ (NRows(a) = NRows(b) \/ NRows(a) = 1 \/ NRows(b) = 1)
    /\ (NCols(a) = NCols(b) \/ NCols(a) = 1 \/ NCols(b) = 1)

Max2(x, y) == IF x >= y THEN x ELSE y

Bcast(a, r, c) == a[IF NRows(a) = 1 THEN 1 ELSE r][IF NCols(a) = 1 THEN 1 ELSE c]

\* mutant: exclusive or
BitXor(a, b) ==
    [r \in 1..Max2(NRows(a), NRows(b)) |->
        [c \in 1..Max2(NCols(a), NCols(b)) |-> Bcast(a, r, c) # Bcast(b, r, c)]]

\* the operator | of two boolean ndarrays (a new array; operands broadcast)
BitOr(a, b) ==
    [r \in 1..Max2(NRows(a), NRows(b)) |->
        [c \in 1..Max2(NCols(a), NCols(b)) |-> Bcast(a, r, c) \/ Bcast(b, r, c)]]

----------------------------------------------------------------------------
(* The directory *)

CcdmaskFile == <<"mask_from_ccdmask.fits", 0>>
HotPixFile == <<"mask_from_dark_current.fits", 0>>
LightFile(k) == <<"light.fits", k>>

\* the files of the collection, in the order the summary table lists them
Files == <<CcdmaskFile, HotPixFile>> \o [k \in 1..NumLight |-> LightFile(k)]

FileSet == {Files[n] : n \in 1..Len(Files)}

\* the summary table was built when the collection was constructed
IsLight(f) == disk0[f].imagetyp = "light"

\* the files ifc.ccds(imagetyp='light') yields, in order
LightFiles == SelectSeq(Files, IsLight)

\* pixel data of light frame k, and what the detector's cleaned copy holds
RawData(k) == [r \in 1..Rows |-> [c \in 1..Cols |-> k]]
Cleaned(d) == [r \in 1..NRows(d) |-> [c \in 1..NCols(d) |-> 0]]

MaskFileOf(g, typ) == [imagetyp |-> typ, data |-> g, mask |-> None]
LightFrame(k, m) == [imagetyp |-> "light", data |-> RawData(k), mask |-> m]

\* what a write that failed part-way may leave behind
Damaged == [imagetyp |-> "unreadable", data |-> None, mask |-> None]

NoCcd == [data |-> None, mask |-> None]
NoFile == <<"", 0>>

----------------------------------------------------------------------------
(* The pieces of the loop body *)

\* mutant: the exception is swallowed and the session goes on
HaltedNever == FALSE

\* an uncaught exception ends the session
Halted == err # NoErr

\* overall_mask = new_ccd.mask | combined_mask
OverallMask(cr, comb) == BitOr(cr, comb)

\* mutant: the mask the image already had is dropped
MergeMaskDropExisting(existing, overall) == overall

\* mutant: the masks are and-ed
MergeMaskAnd(existing, overall) ==
    IF existing # None
    THEN [r \in 1..NRows(overall) |->
            [c \in 1..NCols(overall) |-> existing[r][c] /\ overall[r][c]]]
    ELSE overall

\* if ccd.mask is not None: ccd.mask | overall_mask, else overall_mask
MergeMask(existing, overall) ==
    IF existing # None THEN BitOr(existing, overall) ELSE overall

\* mutant: the cleaned image is what gets written
WrittenImageCleaned(c, n) == [data |-> n.data, mask |-> c.mask]

\* the object whose write method is called: ccd
WrittenImage(c, n) == c

\* mutant: the option is left at its default
WriteOverwriteDefault == FALSE

\* the overwrite argument of ccd.write
WriteOverwrite == TRUE

\* the writer refuses an existing file unless overwrite is given
SinkRefuses(path, overwrite) == path \in DOMAIN disk /\ ~overwrite

AllPending == [k \in 1..NumLight |-> "Pending"]
NoCr == [k \in 1..NumLight |-> None]

----------------------------------------------------------------------------
(* The statements *)

\* mask_ccdmask, mask_hot_pix: read and convert to boolean
ReadMasks ==
    /\ pc = "read_masks" /\ ~Halted
    /\ mask_ccdmask' = AsBool(disk[CcdmaskFile].data)
    /\ mask_hot_pix' = AsBool(disk[HotPixFile].data)
    /\ pc' = "combine"
    /\ UNCHANGED <<disk, disk0, err, combined_mask, i, ccd, file_name, new_ccd,
                   overall_mask, out, stage, reads, writes, run, cr1>>

\* combined_mask = mask_ccdmask.data | mask_hot_pix.data
CombineMasks ==
    /\ pc = "combine" /\ ~Halted
    /\ IF Broadcastable(mask_ccdmask, mask_hot_pix)
       THEN /\ combined_mask' = BitOr(mask_ccdmask, mask_hot_pix)
            /\ pc' = "next"
            /\ err' = err
       ELSE /\ err' = "ShapeMismatch"
            /\ UNCHANGED <<combined_mask, pc>>
    /\ UNCHANGED <<disk, disk0, mask_ccdmask, mask_hot_pix, i, ccd, file_name,
                   new_ccd, overall_mask, out, stage, reads, writes, run, cr1>>

\* for ccd, file_name in ifc.ccds(imagetyp='light', return_fname=True)
NextImage ==
    /\ pc = "next" /\ ~Halted
    /\ IF i < Len(LightFiles)
       THEN /\ file_name' = LightFiles[i + 1]
            /\ ccd' = [data |-> disk[LightFiles[i + 1]].data,
                       mask |-> disk[LightFiles[i + 1]].mask]
            /\ reads' = reads \cup {LightFiles[i + 1]}
            /\ pc' = "print"
       ELSE /\ pc' = "done"
            /\ UNCHANGED <<file_name, ccd, reads>>
    /\ UNCHANGED <<disk, disk0, err, mask_ccdmask, mask_hot_pix, combined_mask, i,
                   new_ccd, overall_mask, out, stage, writes, run, cr1>>

\* print('Working on file {}'.format(file_name))
Status ==
    /\ pc = "print" /\ ~Halted
    /\ out' = Append(out, file_name)
    /\ pc' = "detect"
    /\ UNCHANGED <<disk, disk0, err, mask_ccdmask, mask_hot_pix, combined_mask, i,
                   ccd, file_name, new_ccd, overall_mask, stage, reads, writes,
                   run, cr1>>

\* new_ccd = ccdp.cosmicray_lacosmic(ccd, ...): a new image with a mask of the
\* shape of the data, or an exception
Detect ==
    /\ pc = "detect" /\ ~Halted
    /\ \/ /\ \E m \in InputMasks(NRows(ccd.data), NCols(ccd.data)) :
                /\ new_ccd' = [data |-> Cleaned(ccd.data), mask |-> m]
                /\ cr1' = IF run = 1 THEN [cr1 EXCEPT ![i + 1] = m] ELSE cr1
          /\ stage' = [stage EXCEPT ![i + 1] = "CosmicRayDetected"]
          /\ pc' = "overall"
          /\ err' = err
       \/ /\ err' = "DetectError"
          /\ UNCHANGED <<new_ccd, cr1, stage, pc>>
    /\ UNCHANGED <<disk, disk0, mask_ccdmask, mask_hot_pix, combined_mask, i, ccd,
                   file_name, overall_mask, out, reads, writes, run>>

\* mutant: combined_mask |= new_ccd.mask, in place
OverallInPlace ==
    /\ pc = "overall" /\ ~Halted
    /\ combined_mask' = BitOr(combined_mask, new_ccd.mask)
    /\ overall_mask' = combined_mask'
    /\ pc' = "merge"
    /\ UNCHANGED <<disk, disk0, err, mask_ccdmask, mask_hot_pix, i, ccd, file_name,
                   new_ccd, out, stage, reads, writes, run, cr1>>

\* overall_mask = new_ccd.mask | combined_mask
Overall ==
    /\ pc = "overall" /\ ~Halted
    /\ IF Broadcastable(new_ccd.mask, combined_mask)
       THEN /\ overall_mask' = OverallMask(new_ccd.mask, combined_mask)
            /\ pc' = "merge"
            /\ err' = err
       ELSE /\ err' = "ShapeMismatch"
            /\ UNCHANGED <<overall_mask, pc>>
    /\ UNCHANGED <<disk, disk0, mask_ccdmask, mask_hot_pix, combined_mask, i, ccd,
                   file_name, new_ccd, out, stage, reads, writes, run, cr1>>

\* mutant: the write is outside the loop body, the loop goes on after the merge
MergeThenNext ==
    /\ pc = "merge" /\ ~Halted
    /\ ccd' = [ccd EXCEPT !.mask = MergeMask(ccd.mask, overall_mask)]
    /\ stage' = [stage EXCEPT ![i + 1] = "Merged"]
    /\ i' = i + 1
    /\ pc' = IF i + 1 < Len(LightFiles) THEN "next" ELSE "write"
    /\ UNCHANGED <<disk, disk0, err, mask_ccdmask, mask_hot_pix, combined_mask,
                   file_name, new_ccd, overall_mask, out, reads, writes, run, cr1>>

\* if ccd.mask is not None: ... else: ...
Merge ==
    /\ pc = "merge" /\ ~Halted
    /\ IF ccd.mask = None \/ Broadcastable(ccd.mask, overall_mask)
       THEN /\ ccd' = [ccd EXCEPT !.mask = MergeMask(ccd.mask, overall_mask)]
            /\ stage' = [stage EXCEPT ![i + 1] = "Merged"]
            /\ pc' = "write"
            /\ err' = err
       ELSE /\ err' = "ShapeMismatch"
            /\ UNCHANGED <<ccd, stage, pc>>
    /\ UNCHANGED <<disk, disk0, mask_ccdmask, mask_hot_pix, combined_mask, i,
                   file_name, new_ccd, overall_mask, out, reads, writes, run, cr1>>

\* the file a successful write leaves: the header is the one that was read
FileOf(img, f) == [imagetyp |-> disk[f].imagetyp, data |-> img.data, mask |-> img.mask]

\* ccd.write(ifc.location / file_name, overwrite=True)
Write ==
    /\ pc = "write" /\ ~Halted
    /\ writes' = writes \cup {[path |-> file_name, overwrite |-> WriteOverwrite]}
    /\ IF SinkRefuses(file_name, WriteOverwrite)
       THEN /\ err' = "OverwriteDenied"
            /\ UNCHANGED <<disk, i, stage, pc>>
       ELSE \/ /\ disk' = [disk EXCEPT ![file_name] =
                                FileOf(WrittenImage(ccd, new_ccd), file_name)]
               /\ i' = i + 1
               /\ stage' = [stage EXCEPT ![i + 1] = "Persisted"]
               /\ pc' = "next"
               /\ err' = err
            \/ /\ err' = "WriteError"
               /\ \E left \in {disk[file_name], Damaged,
                               FileOf(WrittenImage(ccd, new_ccd), file_name)} :
                     disk' = [disk EXCEPT ![file_name] = left]
               /\ UNCHANGED <<i, stage, pc>>
    /\ UNCHANGED <<disk0, mask_ccdmask, mask_hot_pix, combined_mask, ccd, file_name,
                   new_ccd, overall_mask, out, reads, run, cr1>>

\* the loop cell is executed again after it has finished
Rerun ==
    /\ pc = "done" /\ ~Halted
    /\ run < MaxRuns
    /\ run' = run + 1
    /\ i' = 0
    /\ out' = <<>>
    /\ stage' = AllPending
    /\ reads' = {}
    /\ pc' = "next"
    /\ UNCHANGED <<disk, disk0, err, mask_ccdmask, mask_hot_pix, combined_mask, ccd,
                   file_name, new_ccd, overall_mask, writes, cr1>>

----------------------------------------------------------------------------
(* Initial states and specifications *)

InitSession ==
    /\ disk0 = disk
    /\ pc = "read_masks"
    /\ err = NoErr
    /\ mask_ccdmask = None
    /\ mask_hot_pix = None
    /\ combined_mask = None
    /\ i = 0
    /\ ccd = NoCcd
    /\ file_name = NoFile
    /\ new_ccd = NoCcd
    /\ overall_mask = None
    /\ out = <<>>
    /\ stage = AllPending
    /\ reads = {}
    /\ writes = {}
    /\ run = 1
    /\ cr1 = NoCr

Directory(a, b, lm) ==
    [f \in FileSet |->
        IF f = CcdmaskFile THEN MaskFileOf(a, "flat")
        ELSE IF f = HotPixFile THEN MaskFileOf(b, "dark")
        ELSE LightFrame(f[2], lm[f[2]])]

LightMasks == [1..NumLight -> {None} \cup InputMasks(Rows, Cols)]

\* the static masks of the end-to-end scenario
ExampleA == [r \in 1..Rows |-> [c \in 1..Cols |-> IF <<r, c>> = <<1, 2>> THEN 1 ELSE 0]]
ExampleB == [r \in 1..Rows |-> [c \in 1..Cols |-> IF <<r, c>> = <<2, 1>> THEN 1 ELSE 0]]

\* the session on a directory whose masks and images share one shape
Init ==
    /\ \E a \in RawMasks(Rows, Cols), b \in RawMasks(Rows, Cols), lm \in LightMasks :
          disk = Directory(a, b, lm)
    /\ InitSession

Next ==
    \/ ReadMasks
    \/ CombineMasks
    \/ NextImage
    \/ Status
    \/ Detect
    \/ Overall
    \/ Merge
    \/ Write

Spec == Init /\ [][Next]_vars

\* the two mask files hold grids of any shapes up to Rows x Cols
AnyRawMasks == UNION {RawMasks(r, c) : r \in 1..Rows, c \in 1..Cols}

InitCombine ==
    /\ \E a \in AnyRawMasks, b \in AnyRawMasks :
          disk = Directory(a, b, [k \in 1..NumLight |-> None])
    /\ InitSession

NextCombine == ReadMasks \/ CombineMasks

SpecCombine == InitCombine /\ [][NextCombine]_vars

\* the loop cell executed up to MaxRuns times, on the scenario's static masks
InitRerun ==
    /\ \E lm \in LightMasks : disk = Directory(ExampleA, ExampleB, lm)
    /\ InitSession

NextRerun == Next \/ Rerun

SpecRerun == InitRerun /\ [][NextRerun]_vars

----------------------------------------------------------------------------
(* Properties *)

T == TRUE
F == FALSE

Cells == (1..Rows) \X (1..Cols)

\* cell by cell: flagged before, or by the detector, or by a static mask
Expected(prior, cr, comb) ==
    [r \in 1..Rows |-> [c \in 1..Cols |->
        (prior # None /\ prior[r][c]) \/ cr[r][c] \/ comb[r][c]]]

Persisted(k) == stage[k] = "Persisted"

ExampleCombined == <<<<F, T>>, <<T, F>>>>
ExampleCr1 == <<<<T, F>>, <<F, F>>>>
ExampleFinal1 == <<<<T, T>>, <<T, F>>>>
ExampleCr2 == <<<<F, F>>, <<F, F>>>>
ExamplePrior2 == <<<<F, F>>, <<F, T>>>>
ExampleFinal2 == <<<<F, T>>, <<T, T>>>>

ScenarioNoPrior(k) ==
    /\ Persisted(k)
    /\ combined_mask = ExampleCombined
    /\ cr1[k] = ExampleCr1
    /\ disk0[LightFiles[k]].mask = None

ScenarioPrior(k) ==
    /\ Persisted(k)
    /\ combined_mask = ExampleCombined
    /\ cr1[k] = ExampleCr2
    /\ disk0[LightFiles[k]].mask = ExamplePrior2

\* C1: the mask set on a light frame and written to its file is, cell by cell,
\* (mask it had when read) or (cosmic ray mask) or (combined static mask), the
\* first term absent when the frame had no mask; the two end-to-end scenarios
\* give [[1,1],[1,0]] and [[0,1],[1,1]].
C1_FinalMask ==
    /\ (pc = "write" /\ ~Halted) =>
          ccd.mask = Expected(disk0[file_name].mask, new_ccd.mask, combined_mask)
    /\ \A k \in 1..NumLight :
          /\ Persisted(k) =>
                disk[LightFiles[k]].mask =
                    Expected(disk0[LightFiles[k]].mask, cr1[k], combined_mask)
          /\ ScenarioNoPrior(k) => disk[LightFiles[k]].mask = ExampleFinal1
          /\ ScenarioPrior(k) => disk[LightFiles[k]].mask = ExampleFinal2

C1_Witness ==
    /\ pc = "done"
    /\ ScenarioNoPrior(1)
    /\ ScenarioPrior(2)

\* C2: when the two mask files have the same shape, the combined static mask
\* has that shape and is true at a cell exactly when the data of at least one
\* of the two files is nonzero there.
C2_CombinedIsOr ==
    (combined_mask # None
        /\ Shape(disk[CcdmaskFile].data) = Shape(disk[HotPixFile].data)) =>
       /\ Shape(combined_mask) = Shape(disk[CcdmaskFile].data)
       /\ \A r \in 1..NRows(combined_mask), c \in 1..NCols(combined_mask) :
             combined_mask[r][c] =
                (disk[CcdmaskFile].data[r][c] # 0 \/ disk[HotPixFile].data[r][c] # 0)

C2_Witness ==
    /\ combined_mask # None
    /\ Shape(disk[CcdmaskFile].data) = <<Rows, Cols>>
    /\ Shape(disk[HotPixFile].data) = <<Rows, Cols>>
    /\ \E p \in Cells : disk[CcdmaskFile].data[p[1]][p[2]] > 1
    /\ \E p \in Cells : combined_mask[p[1]][p[2]] /\ disk[CcdmaskFile].data[p[1]][p[2]] = 0
    /\ \E p \in Cells : ~combined_mask[p[1]][p[2]]

\* C3: the merge only adds flags: every cell flagged in the mask the frame had
\* when read, or in the new overall mask, is flagged in the mask set on the
\* frame, whose count of flagged cells is therefore at least either count; a
\* written frame keeps every flag its file had.
C3_Monotonic ==
    /\ (pc = "write" /\ ~Halted) =>
          LET prior == disk0[file_name].mask IN
          /\ \A p \in Cells :
                ((prior # None /\ prior[p[1]][p[2]]) \/ overall_mask[p[1]][p[2]])
                    => ccd.mask[p[1]][p[2]]
          /\ Count(ccd.mask) >= Count(overall_mask)
          /\ prior # None => Count(ccd.mask) >= Count(prior)
    /\ \A k \in 1..NumLight :
          (Persisted(k) /\ disk0[LightFiles[k]].mask # None) =>
             \A p \in Cells :
                disk0[LightFiles[k]].mask[p[1]][p[2]]
                    => disk[LightFiles[k]].mask[p[1]][p[2]]

C3_Witness ==
    /\ pc = "write" /\ ~Halted
    /\ disk0[file_name].mask # None
    /\ Count(disk0[file_name].mask) = 1
    /\ Count(overall_mask) >= 1
    /\ Count(ccd.mask) > Count(overall_mask)

\* C4: in a second execution of the loop, a frame for which the detector
\* returns the cosmic ray mask it returned in the first execution is written
\* with the mask its file already holds.
C4_Idempotent ==
    [][(run = 2 /\ pc = "write" /\ pc' = "next" /\ new_ccd.mask = cr1[i + 1])
          => disk'[file_name].mask = disk[file_name].mask]_vars

C4_Witness ==
    /\ run = 2 /\ pc = "next" /\ i = 1
    /\ new_ccd.mask = cr1[1]
    /\ Count(cr1[1]) = 1
    /\ disk0[LightFiles[1]].mask = None
    /\ Persisted(1)

\* C5: a combined static mask exists only if the two static masks have the
\* same shape, and combining masks of different shapes ends in ShapeMismatch.
C5_ShapeMismatchFails ==
    LET same == Shape(disk[CcdmaskFile].data) = Shape(disk[HotPixFile].data) IN
    /\ combined_mask # None => same
    /\ (pc \notin {"read_masks", "combine"} \/ Halted) => (same \/ err = "ShapeMismatch")

\* the directory after detection or the write failed at position i + 1
C6_FailedState ==
    (err \in {"DetectError", "WriteError"}) =>
       \A k \in 1..NumLight :
          /\ k < i + 1 =>
                disk[LightFiles[k]] =
                    [disk0[LightFiles[k]] EXCEPT
                        !.mask = Expected(disk0[LightFiles[k]].mask, cr1[k], combined_mask)]
          /\ k > i + 1 =>
                /\ disk[LightFiles[k]] = disk0[LightFiles[k]]
                /\ LightFiles[k] \notin reads
                /\ \A w \in writes : w.path # LightFiles[k]
                /\ stage[k] = "Pending"

\* C6: once detection or the write has failed for the frame at position N,
\* the session takes no further step, every frame before N holds the mask
\* that was written for it, and every frame after N is as it was when the
\* session began, not read and not written.
C6_FailureStops == [](C6_FailedState) /\ [][err = NoErr]_vars

C6_Witness ==
    /\ err = "WriteError"
    /\ i = 1
    /\ disk[LightFiles[1]].mask # disk0[LightFiles[1]].mask
    /\ disk[LightFiles[2]] = Damaged

\* C7: every write the loop requests names the file the frame was read from
\* and asks for overwrite, the session never ends in OverwriteDenied, and a
\* file differs from what it was only if a write asking for overwrite named it.
C7_OverwriteExplicit ==
    /\ err # "OverwriteDenied"
    /\ \A w \in writes :
          /\ w.overwrite
          /\ w.path \in reads
          /\ w.path \in DOMAIN disk0
    /\ \A f \in FileSet :
          disk[f] # disk0[f] => \E w \in writes : w.path = f /\ w.overwrite
    /\ (pc = "write" /\ ~Halted) => SinkRefuses(file_name, FALSE)

C7_Witness ==
    /\ pc = "done"
    /\ Cardinality(writes) = NumLight
    /\ \A k \in 1..NumLight : disk[LightFiles[k]] # disk0[LightFiles[k]]

StageSteps ==
    {<<"Pending", "CosmicRayDetected">>, <<"CosmicRayDetected", "Merged">>,
     <<"Merged", "Persisted">>}

InFlight(k) == stage[k] \in {"CosmicRayDetected", "Merged"}

C8_StageInv ==
    /\ Cardinality({k \in 1..NumLight : InFlight(k)}) <= 1
    /\ \A k \in 1..NumLight :
          /\ (k > 1 /\ stage[k] # "Pending") => stage[k - 1] = "Persisted"
          /\ stage[k] # "Pending" => (Len(out) >= k /\ out[k] = LightFiles[k])
    /\ \A n \in 1..Len(out) : out[n] = LightFiles[n]

\* C8: a frame's stage only moves Pending -> CosmicRayDetected -> Merged ->
\* Persisted, one step at a time; at most one frame is between Pending and
\* Persisted; a frame leaves Pending only when the frame before it is
\* Persisted and its own status message has been printed.
C8_Sequential ==
    /\ [](C8_StageInv)
    /\ [][\A k \in 1..NumLight :
             stage'[k] # stage[k] => <<stage[k], stage'[k]>> \in StageSteps]_vars

C8_Witness ==
    /\ stage[1] = "Persisted"
    /\ stage[2] = "Merged"
    /\ out = LightFiles

\* C9: no statement of the loop changes the combined static mask, which stays
\* the or of the two static masks as converted before the loop.
C9_CombinedReadOnly ==
    /\ [][pc \notin {"read_masks", "combine"} => combined_mask' = combined_mask]_vars
    /\ [](pc \notin {"read_masks", "combine"} =>
             combined_mask = BitOr(mask_ccdmask, mask_hot_pix))

C9_Witness ==
    /\ pc = "done"
    /\ \E p \in Cells : new_ccd.mask[p[1]][p[2]] /\ ~combined_mask[p[1]][p[2]]
    /\ Count(combined_mask) = 2

\* C10: a file that is not a light frame is never changed; a light frame's
\* file changes only in its mask (a write that failed part-way may leave
\* that one file unreadable).
C10_OnlyLightMasks ==
    \A f \in FileSet :
       /\ disk0[f].imagetyp # "light" => disk[f] = disk0[f]
       /\ disk0[f].imagetyp = "light" =>
             \/ /\ disk[f].data = disk0[f].data
                /\ disk[f].imagetyp = disk0[f].imagetyp
             \/ /\ err = "WriteError" /\ f = file_name
                /\ disk[f] = Damaged

C10_Witness ==
    /\ pc = "done"
    /\ \A k \in 1..NumLight :
          /\ disk[LightFiles[k]].mask # disk0[LightFiles[k]].mask
          /\ disk[LightFiles[k]].data = RawData(k)
    /\ new_ccd.data # ccd.data

====
